---- MODULE Spec2Model ----
(***************************************************************************)
(* Model of model/train.py: the environment probes, the training runner,   *)
(* the report sink (upload_to_s3) and the orchestrator (main).             *)
(*                                                                         *)
(* A JSON-like mapping returned by a probe is a function from key paths    *)
(* (sequences of keys) to string values.  A run report (log_data) and a    *)
(* Training Results document are records.  Exceptions are records          *)
(* [type, msg, origin]; NoExc stands for "no exception".                   *)
(***************************************************************************)
EXTENDS Integers, Sequences, FiniteSets, TLC

VARIABLES
    pc,            \* position of main(): "start","probes","train","fit","upload","except","done"; "idle" outside main
    run,           \* number of the current invocation of main() (one process each)
    usedUuids,     \* uuid4 values drawn so far
    run_id,        \* main: run_id
    timestamp,     \* main: timestamp
    s3_client,     \* main: s3_client ("none" = None)
    log_data,      \* main: log_data
    training_log,  \* run_training: training_log
    pending,       \* exception being handled / in flight inside main
    exc,           \* exception that left main() (NoExc before the end and on normal return)
    calls,         \* upload_to_s3 calls of the current run, in order
    disk,          \* local files: filename -> content
    bucket,        \* remote objects: key -> body
    runs,          \* finished runs: [timestamp, run_id, names]
    probe,         \* last direct probe call: [name, args, failed, raised, value]
    up             \* direct upload_to_s3 call: [called, client, data, filename, put, wr, raised, ret, exc]

vars == <<pc, run, usedUuids, run_id, timestamp, s3_client, log_data, training_log,
          pending, exc, calls, disk, bucket, runs, probe, up>>

(***************************************************************************)
(* Bounds and program constants                                            *)
(***************************************************************************)
MaxRuns == 2

Epochs == 5

S3_BUCKET == "volcano-akashplay"

S3_LOGS_PREFIX == "logs"

\* uuid4 values: the first 8 characters of the text form, and the rest of it
UuidHeads == {"0a1b2c3d", "4e5f6a7b"}

UuidTails == {"-0000", "-ffff"}

Uuids == [head : UuidHeads, tail : UuidTails]

\* strftime("%Y%m%d_%H%M%S") of the wall clock: one value per second
Timestamps == {"20250101_000000", "20250101_000001"}

ErrMsgs == {"boom", "OOM when allocating tensor"}

NoExc == [type |-> "none", msg |-> "", origin |-> "none"]

Exc(t, m, o) == [type |-> t, msg |-> m, origin |-> o]

EmptyMap == [p \in {} |-> ""]

\* a mapping with the entries of m placed under key k
Under(k, m) == [p \in {<<k>> \o q : q \in DOMAIN m} |-> m[Tail(p)]]

\* dict.update / merging of disjoint mappings
Merge(m1, m2) == [p \in DOMAIN m1 \cup DOMAIN m2 |-> IF p \in DOMAIN m2 THEN m2[p] ELSE m1[p]]

Put(f, k, v) == [x \in DOMAIN f \cup {k} |-> IF x = k THEN v ELSE f[x]]

\* the mapping has a key named "error", at any depth
HasErrorKey(m) == \E p \in DOMAIN m : p[Len(p)] = "error"

(***************************************************************************)
(* Probes                                                                  *)
(***************************************************************************)
CpuInfoReads == {"ok", "no_model_name", "missing", "malformed"}

MemInfoReads == {"ok", "missing", "malformed"}

get_system_info(cpuinfo, meminfo) ==
    LET base == (<<"timestamp">> :> "now") @@ (<<"hostname">> :> "host")
                  @@ (<<"python_version">> :> "tf")
        cpu  == CASE cpuinfo = "ok" ->
                       (<<"cores">> :> "n") @@ (<<"model">> :> "Xeon")
                  [] cpuinfo = "no_model_name" ->
                       (<<"cores">> :> "n") @@ (<<"model">> :> "Unknown")
                  [] OTHER -> (<<"error">> :> cpuinfo)
        mem  == IF meminfo = "ok"
                THEN (<<"total_mb">> :> "t") @@ (<<"available_mb">> :> "a")
                ELSE (<<"error">> :> meminfo)
    IN  [raised |-> FALSE,
         value  |-> Merge(base, Merge(Under("cpu", cpu), Under("memory", mem)))]

get_kubernetes_info ==
    (<<"pod_name">> :> "Unknown") @@ (<<"node_name">> :> "Unknown")
      @@ (<<"namespace">> :> "default") @@ (<<"service_account">> :> "Unknown")
      @@ (<<"pod_ip">> :> "Unknown")

MetadataFields == {"instance_id", "instance_type", "availability_zone",
                   "region", "local_ipv4", "public_ipv4"}

\* the inner helper of get_aws_metadata: one HTTP fetch, every failure swallowed
get_metadata(fetch) == IF fetch = "ok" THEN "value" ELSE "Unable to fetch"

\* importing urllib.request, as get_aws_metadata does first
ImportOutcomes == {"ok", "raises"}

\* one fetch outcome per metadata field
FetchOutcomes == [MetadataFields -> {"ok", "fails"}]

get_aws_metadata(import, fetch) ==
    [raised |-> FALSE,
     value  |-> IF import = "raises"
                THEN (<<"error">> :> "AWS metadata unavailable")
                ELSE [p \in {<<k>> : k \in MetadataFields} |-> get_metadata(fetch[p[1]])]]

\* tf.test.is_built_with_cuda / is_gpu_available / tf.config.list_physical_devices
TfQueries == {"ok", "raises"}

GpuCounts == {0, 1}

\* tf.config.experimental.get_device_details
DetailReads == {"ok", "raises"}

\* subprocess.run(['nvidia-smi', ...])
SmiRuns == {"ok", "nonzero_exit", "not_found", "timeout"}

get_gpu_info(tfq, gpus, details, smi) ==
    LET base == (<<"tensorflow_version">> :> "tf") @@ (<<"cuda_built">> :> "bool")
                  @@ (<<"gpu_available">> :> "bool") @@ (<<"physical_devices">> :> "list")
                  @@ (<<"gpu_count">> :> (IF gpus = 0 THEN "0" ELSE "1"))
        det  == IF gpus = 0 THEN (<<"gpu_details">> :> "[]")
                ELSE IF details = "ok"
                     THEN (<<"gpu_details", "0", "details", "compute_capability">> :> "(7, 5)")
                            @@ (<<"gpu_details", "0", "details", "device_name">> :> "T4")
                     ELSE (<<"gpu_details", "0", "details", "error">> :> "details")
        nv   == CASE smi = "ok" -> (<<"nvidia_smi">> :> "rows")
                  [] smi = "nonzero_exit" -> EmptyMap
                  [] OTHER -> (<<"nvidia_smi", "error">> :> smi)
    IN  IF tfq = "raises"
        THEN [raised |-> TRUE, value |-> EmptyMap]
        ELSE [raised |-> FALSE, value |-> Merge(base, Merge(det, nv))]

CpuLimitReads == {"limited", "unlimited", "missing", "zero_period"}

MemLimitReads == {"limited", "unlimited", "missing"}

get_resource_limits(cpu, mem) ==
    LET c == CASE cpu = "limited" -> (<<"cpu_limit_cores">> :> "2.0")
               [] cpu = "unlimited" -> (<<"cpu_limit_cores">> :> "unlimited")
               [] OTHER -> (<<"cpu_limit", "error">> :> cpu)
        m == CASE mem = "limited" -> (<<"memory_limit_mb">> :> "4096")
               [] mem = "unlimited" -> (<<"memory_limit_mb">> :> "unlimited")
               [] OTHER -> (<<"memory_limit", "error">> :> mem)
    IN  [raised |-> FALSE, value |-> Merge(c, m)]

(***************************************************************************)
(* The environment one invocation of main() runs in: one outcome per read  *)
(***************************************************************************)
AllFetch(o) == [k \in MetadataFields |-> o]

GpuNode == [cpuinfo |-> "ok", meminfo |-> "ok", import |-> "ok", fetch |-> AllFetch("ok"),
            tfq |-> "ok", gpus |-> 1, details |-> "ok", smi |-> "ok",
            cpu |-> "limited", mem |-> "limited"]

CpuNode == [cpuinfo |-> "missing", meminfo |-> "missing", import |-> "ok",
            fetch |-> AllFetch("fails"), tfq |-> "ok", gpus |-> 0, details |-> "ok",
            smi |-> "not_found", cpu |-> "missing", mem |-> "missing"]

BrokenDriverNode == [GpuNode EXCEPT !.tfq = "raises"]

MainEnvs == {GpuNode, CpuNode, BrokenDriverNode}

NoResults == [status |-> "absent"]

\* the log_data literal of main(), before training_results is added
MakeLogData(rid, env) ==
    [run_id          |-> rid,
     job_type        |-> "volcano_tensorflow_training",
     system_info     |-> get_system_info(env.cpuinfo, env.meminfo).value,
     kubernetes_info |-> get_kubernetes_info,
     aws_metadata    |-> get_aws_metadata(env.import, env.fetch).value,
     gpu_info        |-> get_gpu_info(env.tfq, env.gpus, env.details, env.smi).value,
     resource_limits |-> get_resource_limits(env.cpu, env.mem).value,
     training_results |-> NoResults]

(***************************************************************************)
(* JSON                                                                    *)
(***************************************************************************)
\* a value the encoder rejects with TypeError (a set, a numpy scalar, ...)
Unserializable == "<object>"

\* json encodes a Python tuple as an array; every other value keeps its form
JsonValue(v) == IF v = "(7, 5)" THEN "[7, 5]" ELSE v

JsonMap(m) == [p \in DOMAIN m |-> JsonValue(m[p])]

Serializable(data) ==
    /\ \A p \in DOMAIN data.system_info : data.system_info[p] # Unserializable
    /\ \A p \in DOMAIN data.aws_metadata : data.aws_metadata[p] # Unserializable
    /\ \A p \in DOMAIN data.gpu_info : data.gpu_info[p] # Unserializable
    /\ \A p \in DOMAIN data.resource_limits : data.resource_limits[p] # Unserializable

\* json.dumps(data, indent=2): the text, held as the JSON value it denotes
json_dumps(data) ==
    [kind  |-> "json",
     value |-> [data EXCEPT !.system_info = JsonMap(@), !.aws_metadata = JsonMap(@),
                            !.gpu_info = JsonMap(@), !.resource_limits = JsonMap(@)]]

\* json.load of a complete file
json_loads(text) == text.value

\* a file that open(filename, 'w') created and json.dump did not finish
PartialFile == [kind |-> "partial"]

(***************************************************************************)
(* Report sink                                                             *)
(***************************************************************************)
Clients == {"none", "client"}

\* s3_client.put_object
PutOutcomes == {"ok", "raises"}

\* open(filename, 'w') followed by json.dump into the file
WriteOutcomes == {"ok", "open_fails", "write_fails"}

S3Key(filename) == <<S3_LOGS_PREFIX, "/">> \o filename

\* with open(filename, 'w') as f: json.dump(data, f, indent=2)
LocalWrite(data, filename, wr, dsk) ==
    CASE wr = "open_fails" ->
           [raised |-> TRUE, exc |-> Exc("OSError", "cannot open", "upload"), disk |-> dsk]
      [] wr # "open_fails" /\ ~Serializable(data) ->
           [raised |-> TRUE, exc |-> Exc("TypeError", "not JSON serializable", "upload"),
            disk |-> Put(dsk, filename, PartialFile)]
      [] wr = "write_fails" /\ Serializable(data) ->
           [raised |-> TRUE, exc |-> Exc("OSError", "cannot write", "upload"),
            disk |-> Put(dsk, filename, PartialFile)]
      [] OTHER ->
           [raised |-> FALSE, exc |-> NoExc, disk |-> Put(dsk, filename, json_dumps(data))]

upload_to_s3(client, data, filename, put, wr, dsk, bkt) ==
    LET local == LocalWrite(data, filename, wr, dsk)
        fallback == [raised |-> local.raised, ret |-> FALSE, exc |-> local.exc,
                     disk |-> local.disk, bucket |-> bkt]
    IN  IF client = "none" THEN fallback
        ELSE IF Serializable(data) /\ put = "ok"
             THEN [raised |-> FALSE, ret |-> TRUE, exc |-> NoExc, disk |-> dsk,
                   bucket |-> Put(bkt, S3Key(filename), json_dumps(data))]
             ELSE fallback

(***************************************************************************)
(* Training runner                                                         *)
(***************************************************************************)
\* per-epoch losses as the framework reports them (numpy float32 scalars)
LossHi == <<"float32", 9>>

LossLo == <<"float32", 1>>

\* history.history['loss'] of a fit over Epochs epochs
LossCurves == {[i \in 1..Epochs |-> IF i < k THEN LossHi ELSE LossLo] : k \in 1..(Epochs + 1)}

\* float(x)
Float(x) == <<"float", x[2]>>

\* the stage of run_training's try block at which an exception is raised
FailStages == {"build", "fit"}

StartedLog ==
    [status |-> "started", start_time |-> "t0", dataset |-> "10000x10",
     model |-> "dense64-dense64-dense1", training_config |-> "adam-mse-5-64"]

\* the final loss taken from the first epoch instead of the last
FinalLoss_FirstEpoch(hist) == Float(hist[1])

FinalLoss(hist) == Float(hist[Len(hist)])

\* training_log after the update on success
SuccessLog(hist) ==
    [status |-> "success", start_time |-> "t0", dataset |-> "10000x10",
     model |-> "dense64-dense64-dense1", training_config |-> "adam-mse-5-64",
     device_used |-> "device", end_time |-> "t1",
     final_loss |-> FinalLoss(hist),
     loss_history |-> [i \in 1..Len(hist) |-> Float(hist[i])],
     total_epochs_completed |-> Len(hist)]

\* training_log after the update in run_training's except block
FailedLog(stage, msg) ==
    IF stage = "fit"
    THEN [status |-> "failed", start_time |-> "t0", dataset |-> "10000x10",
          model |-> "dense64-dense64-dense1", training_config |-> "adam-mse-5-64",
          device_used |-> "device", end_time |-> "t1", error |-> msg, traceback |-> "tb"]
    ELSE [status |-> "failed", start_time |-> "t0", dataset |-> "10000x10",
          model |-> "dense64-dense64-dense1", training_config |-> "adam-mse-5-64",
          end_time |-> "t1", error |-> msg, traceback |-> "tb"]

(***************************************************************************)
(* Orchestrator                                                            *)
(***************************************************************************)
\* str(uuid.uuid4())[:8]
RunId(u) == u.head

\* f"volcano_training_{outcome}_{timestamp}_{run_id}.json"
FileName(outcome, ts, rid) == <<"volcano_training_", outcome, "_", ts, "_", rid, ".json">>

\* the training_results main() builds in its except block
FailureResults(e) ==
    [status |-> "failed", error |-> e.msg, traceback |-> "tb", end_time |-> "t2"]

NoProbe == [name |-> "none", args |-> <<>>, failed |-> FALSE, raised |-> FALSE, value |-> EmptyMap]

NoUpload == [called |-> FALSE]

EmptyStore == [k \in {} |-> PartialFile]

BlankLog == [run_id |-> "", training_results |-> NoResults]

Init ==
    /\ pc = "start"
    /\ run = 1
    /\ usedUuids = {}
    /\ run_id = ""
    /\ timestamp = ""
    /\ s3_client = "none"
    /\ log_data = BlankLog
    /\ training_log = NoResults
    /\ pending = NoExc
    /\ exc = NoExc
    /\ calls = <<>>
    /\ disk = EmptyStore
    /\ bucket = EmptyStore
    /\ runs = <<>>
    /\ probe = NoProbe
    /\ up = NoUpload

\* main, up to and including get_s3_client()
MainStart ==
    /\ pc = "start"
    /\ \E u \in Uuids \ usedUuids, ts \in Timestamps, c \in Clients :
         /\ usedUuids' = usedUuids \cup {u}
         /\ run_id' = RunId(u)
         /\ timestamp' = ts
         /\ s3_client' = c
    /\ pc' = "probes"
    /\ UNCHANGED <<run, log_data, training_log, pending, exc, calls, disk, bucket, runs, probe, up>>

\* main: the log_data literal, which calls every probe
CollectProbes ==
    /\ pc = "probes"
    /\ \E env \in MainEnvs :
         IF get_gpu_info(env.tfq, env.gpus, env.details, env.smi).raised
         THEN /\ exc' = Exc("RuntimeError", "device query failed", "probe")
              /\ pc' = "done"
              /\ UNCHANGED log_data
         ELSE /\ log_data' = MakeLogData(run_id, env)
              /\ pc' = "train"
              /\ UNCHANGED exc
    /\ UNCHANGED <<run, usedUuids, run_id, timestamp, s3_client, training_log, pending,
                   calls, disk, bucket, runs, probe, up>>

\* run_training: the training_log literal
TrainBegin ==
    /\ pc = "train"
    /\ training_log' = StartedLog
    /\ pc' = "fit"
    /\ UNCHANGED <<run, usedUuids, run_id, timestamp, s3_client, log_data, pending, exc,
                   calls, disk, bucket, runs, probe, up>>

\* run_training: the try block runs to its end; main stores the returned document
TrainFitOk ==
    /\ pc = "fit"
    /\ \E hist \in LossCurves :
         /\ training_log' = SuccessLog(hist)
         /\ log_data' = [log_data EXCEPT !.training_results = SuccessLog(hist)]
    /\ pc' = "upload"
    /\ UNCHANGED <<run, usedUuids, run_id, timestamp, s3_client, pending, exc,
                   calls, disk, bucket, runs, probe, up>>

\* run_training: the try block raises; the except block updates training_log and re-raises
TrainFitRaises ==
    /\ pc = "fit"
    /\ \E stage \in FailStages, msg \in ErrMsgs :
         /\ training_log' = FailedLog(stage, msg)
         /\ pending' = Exc("ValueError", msg, "training")
    /\ pc' = "except"
    /\ UNCHANGED <<run, usedUuids, run_id, timestamp, s3_client, log_data, exc,
                   calls, disk, bucket, runs, probe, up>>

CallRecord(filename, r) == [filename |-> filename, raised |-> r.raised, ret |-> r.ret]

\* main: the upload of the success log, inside the try block
UploadSuccess ==
    /\ pc = "upload"
    /\ \E put \in PutOutcomes, wr \in WriteOutcomes :
         LET filename == FileName("success", timestamp, run_id)
             r == upload_to_s3(s3_client, log_data, filename, put, wr, disk, bucket)
         IN  /\ calls' = Append(calls, CallRecord(filename, r))
             /\ disk' = r.disk
             /\ bucket' = r.bucket
             /\ IF r.raised
                THEN pending' = r.exc /\ pc' = "except"
                ELSE pending' = pending /\ pc' = "done"
    /\ UNCHANGED <<run, usedUuids, run_id, timestamp, s3_client, log_data, training_log,
                   exc, runs, probe, up>>

\* main: the except block
HandleFailure ==
    /\ pc = "except"
    /\ \E put \in PutOutcomes, wr \in WriteOutcomes :
         LET filename == FileName("failed", timestamp, run_id)
             data == [log_data EXCEPT !.training_results = FailureResults(pending)]
             r == upload_to_s3(s3_client, data, filename, put, wr, disk, bucket)
         IN  /\ log_data' = data
             /\ calls' = Append(calls, CallRecord(filename, r))
             /\ disk' = r.disk
             /\ bucket' = r.bucket
             /\ exc' = IF r.raised THEN r.exc ELSE pending
    /\ pc' = "done"
    /\ UNCHANGED <<run, usedUuids, run_id, timestamp, s3_client, training_log, pending,
                   runs, probe, up>>

CallNames == {calls[i].filename : i \in DOMAIN calls}

\* the job is started again: a new process in a new container, the bucket is kept
NextRun ==
    /\ pc = "done"
    /\ run < MaxRuns
    /\ runs' = Append(runs, [timestamp |-> timestamp, run_id |-> run_id, names |-> CallNames])
    /\ run' = run + 1
    /\ pc' = "start"
    /\ run_id' = ""
    /\ timestamp' = ""
    /\ s3_client' = "none"
    /\ log_data' = BlankLog
    /\ training_log' = NoResults
    /\ pending' = NoExc
    /\ exc' = NoExc
    /\ calls' = <<>>
    /\ disk' = EmptyStore
    /\ UNCHANGED <<usedUuids, bucket, probe, up>>

\* one invocation of main()
Next ==
    \/ MainStart
    \/ CollectProbes
    \/ TrainBegin
    \/ TrainFitOk
    \/ TrainFitRaises
    \/ UploadSuccess
    \/ HandleFailure

Spec == Init /\ [][Next]_vars

\* the job run up to MaxRuns times against the same bucket
JobNext ==
    \/ MainStart
    \/ CollectProbes
    \/ TrainBegin
    \/ TrainFitOk
    \/ TrainFitRaises
    \/ UploadSuccess
    \/ HandleFailure
    \/ NextRun

JobSpec == Init /\ [][JobNext]_vars

(***************************************************************************)
(* The probes called on their own, over every outcome of their reads       *)
(***************************************************************************)
ProbeInit ==
    /\ pc = "idle"
    /\ run = 1
    /\ usedUuids = {}
    /\ run_id = ""
    /\ timestamp = ""
    /\ s3_client = "none"
    /\ log_data = BlankLog
    /\ training_log = NoResults
    /\ pending = NoExc
    /\ exc = NoExc
    /\ calls = <<>>
    /\ disk = EmptyStore
    /\ bucket = EmptyStore
    /\ runs = <<>>
    /\ probe = NoProbe
    /\ up = NoUpload

ProbeCall(name, args, failed, r) ==
    /\ pc = "idle"
    /\ probe' = [name |-> name, args |-> args, failed |-> failed,
                 raised |-> r.raised, value |-> r.value]
    /\ UNCHANGED <<pc, run, usedUuids, run_id, timestamp, s3_client, log_data, training_log,
                   pending, exc, calls, disk, bucket, runs, up>>

CallGetSystemInfo ==
    \E cpuinfo \in CpuInfoReads, meminfo \in MemInfoReads :
        ProbeCall("get_system_info", <<cpuinfo, meminfo>>,
                  cpuinfo \in {"missing", "malformed"} \/ meminfo # "ok",
                  get_system_info(cpuinfo, meminfo))

CallGetAwsMetadata ==
    \E import \in ImportOutcomes, fetch \in FetchOutcomes :
        ProbeCall("get_aws_metadata", <<import, fetch>>,
                  import = "raises" \/ \E k \in MetadataFields : fetch[k] = "fails",
                  get_aws_metadata(import, fetch))

CallGetGpuInfo ==
    \E tfq \in TfQueries, gpus \in GpuCounts, details \in DetailReads, smi \in SmiRuns :
        ProbeCall("get_gpu_info", <<tfq, gpus, details, smi>>,
                  tfq = "raises" \/ (gpus > 0 /\ details = "raises") \/ smi # "ok",
                  get_gpu_info(tfq, gpus, details, smi))

CallGetResourceLimits ==
    \E cpu \in CpuLimitReads, mem \in MemLimitReads :
        ProbeCall("get_resource_limits", <<cpu, mem>>,
                  cpu \in {"missing", "zero_period"} \/ mem = "missing",
                  get_resource_limits(cpu, mem))

ProbeNext ==
    \/ CallGetSystemInfo
    \/ CallGetAwsMetadata
    \/ CallGetGpuInfo
    \/ CallGetResourceLimits

ProbeSpec == ProbeInit /\ [][ProbeNext]_vars

(***************************************************************************)
(* upload_to_s3 called on its own, over every client, document and outcome *)
(***************************************************************************)
SampleEnvs == {GpuNode, CpuNode}

\* a report as main() assembles it, and one holding a value json cannot encode
SampleDocs ==
    {[MakeLogData(rid, env) EXCEPT !.training_results = tr] :
        rid \in UuidHeads, env \in SampleEnvs,
        tr \in {SuccessLog([i \in 1..Epochs |-> LossLo]), FailureResults(Exc("ValueError", "boom", "training"))}}
    \cup {[MakeLogData(rid, CpuNode) EXCEPT !.gpu_info = Put(@, <<"cuda_built">>, Unserializable)] :
            rid \in UuidHeads}

SampleNames == {FileName("success", ts, rid) : ts \in {"20250101_000000"}, rid \in UuidHeads}

UploadInit ==
    /\ pc = "idle"
    /\ run = 1
    /\ usedUuids = {}
    /\ run_id = ""
    /\ timestamp = ""
    /\ s3_client = "none"
    /\ log_data = BlankLog
    /\ training_log = NoResults
    /\ pending = NoExc
    /\ exc = NoExc
    /\ calls = <<>>
    /\ disk = EmptyStore
    /\ bucket = EmptyStore
    /\ runs = <<>>
    /\ probe = NoProbe
    /\ up = NoUpload

CallUpload ==
    /\ pc = "idle"
    /\ ~up.called
    /\ \E client \in Clients, data \in SampleDocs, filename \in SampleNames,
          put \in PutOutcomes, wr \in WriteOutcomes :
         LET r == upload_to_s3(client, data, filename, put, wr, disk, bucket)
         IN  /\ up' = [called |-> TRUE, client |-> client, data |-> data,
                       filename |-> filename, put |-> put, wr |-> wr,
                       raised |-> r.raised, ret |-> r.ret, exc |-> r.exc]
             /\ disk' = r.disk
             /\ bucket' = r.bucket
    /\ UNCHANGED <<pc, run, usedUuids, run_id, timestamp, s3_client, log_data, training_log,
                   pending, exc, calls, runs, probe>>

UploadNext == CallUpload

UploadSpec == UploadInit /\ [][UploadNext]_vars

(***************************************************************************)
(* Properties                                                              *)
(***************************************************************************)
\* the reports of the current run that were stored whole, remotely or locally
Persisted ==
    {json_loads(bucket[k]) : k \in DOMAIN bucket}
      \cup {json_loads(disk[f]) : f \in {g \in DOMAIN disk : disk[g].kind = "json"}}

TrainingReached == training_log.status # "absent"

\* C1: a call of upload_to_s3 never raises, whatever the client, the outcome of
\* put_object, of serializing the document and of the local fallback write.
C1_UploadNeverRaises == up.called => ~up.raised

\* C2: in a run of main() that reaches the training step, upload_to_s3 is called
\* exactly once, under one filename: never twice, and once when main() has ended.
C2_ReportHandedOnce ==
    TrainingReached =>
        /\ Len(calls) <= 1
        /\ pc = "done" => (Len(calls) = 1 /\ Cardinality(CallNames) = 1)

\* C3: every filename main() uses is the "success" name if and only if run_training()
\* returned normally, and the "failed" name if and only if run_training() raised.
C3_NameFollowsTraining ==
    \A i \in DOMAIN calls :
        /\ calls[i].filename = FileName("success", timestamp, run_id)
             <=> training_log.status = "success"
        /\ calls[i].filename = FileName("failed", timestamp, run_id)
             <=> training_log.status = "failed"

\* C4: when run_training() raised, main() has called the report sink with the "failed"
\* filename by the time it ends, and the exception that leaves main() is the original
\* training exception, whether the report went to the bucket or to local disk.
C4_FailedReportThenReraise ==
    (pc = "done" /\ training_log.status = "failed") =>
        /\ \E i \in DOMAIN calls : calls[i].filename = FileName("failed", timestamp, run_id)
        /\ exc = Exc("ValueError", training_log.error, "training")

\* C5: upload_to_s3 returns true only with a client whose put_object succeeded; with no
\* client, or when put_object raises, it returns false and a local file of the requested
\* name then holds JSON equal to the document.
C5_FallbackWritesDocument ==
    up.called =>
        /\ (~up.raised /\ up.ret) => (up.client = "client" /\ up.put = "ok")
        /\ (up.client = "none" \/ up.put = "raises") =>
              /\ ~up.raised
              /\ ~up.ret
              /\ up.filename \in DOMAIN disk
              /\ disk[up.filename].kind = "json"
              /\ json_loads(disk[up.filename]) = json_loads(json_dumps(up.data))

\* C6: a probe whose underlying read failed returns a mapping that holds an "error" key
\* (at any depth) and does not raise.
C6_ProbeFailureRecorded ==
    (probe.name # "none" /\ probe.failed) => (~probe.raised /\ HasErrorKey(probe.value))

\* C7: when training raised with message m, every persisted report has training_results
\* with status failed, error m, a traceback, and the start_time, end_time, dataset, model
\* and training_config fields.
C7_FailedResultsComplete ==
    (pc = "done" /\ training_log.status = "failed") =>
        \A d \in Persisted :
            /\ d.training_results.status = "failed"
            /\ d.training_results.error = training_log.error
            /\ {"traceback", "start_time", "end_time", "dataset", "model", "training_config"}
                 \subseteq DOMAIN d.training_results

\* C8: when the fit call of run_training() succeeded, the Training Results has status
\* success, total_epochs_completed is the length of loss_history, and final_loss is the
\* last element of loss_history.
C8_SuccessResults ==
    /\ pc = "upload" => training_log.status = "success"
    /\ training_log.status = "success" =>
          /\ training_log.total_epochs_completed = Len(training_log.loss_history)
          /\ training_log.final_loss
               = training_log.loss_history[Len(training_log.loss_history)]
          /\ pc = "upload" => log_data.training_results = training_log

\* C8 witness: a successful training whose loss changed between the first and the last epoch
C8_Witness ==
    /\ pc = "upload"
    /\ training_log.status = "success"
    /\ training_log.loss_history[1] # training_log.final_loss

\* C9: a run never uses a report filename that an earlier run with the same timestamp
\* (the same wall-clock second) used.
C9_NoNameCollision ==
    \A i \in DOMAIN runs :
        runs[i].timestamp = timestamp => runs[i].names \cap CallNames = {}

\* C10: training_log only moves from started to success or failed, and once the report's
\* training_results is success or failed no later step changes the report.
C10_TerminalStatusKept ==
    [][/\ training_log.status = "started" => training_log'.status \in {"started", "success", "failed"}
       /\ training_log.status \in {"success", "failed"} => training_log' = training_log
       /\ log_data.training_results.status \in {"success", "failed"} => log_data' = log_data]_vars

====
